---- MODULE Spec2Model ----
(***************************************************************************)
(* Model of streamlit_agent/components/agent_wrapper.py                    *)
(* (StreamlitAgentWrapper), error_handler.py (ErrorHandler) and            *)
(* diagram_manager.py (DiagramManager).                                    *)
(*                                                                         *)
(* Threads: the event-loop thread runs the process_query_async coroutines  *)
(* (one per call), the ThreadPoolExecutor's worker threads run             *)
(* _process_query_sync, and the owner of the wrapper adds and removes      *)
(* status callbacks.  Progress values are in hundredths (0.95 is 95).      *)
(***************************************************************************)
EXTENDS Integers, Sequences, FiniteSets, TLC

\* ------------------------------------------------------------------ bounds
MaxCalls == 2          \* process_query_async calls made in one behaviour
MaxToolCalls == 2      \* create_aws_diagram invocations in one behaviour
MaxEmits == 2          \* _emit_status calls followed step by step
MaxSubOps == 2         \* add/remove_status_callback calls in one behaviour
timeout_seconds == 1   \* constructor argument of the wrapper
MaxWatchTime == 6      \* seconds the watched directory is followed for
MaxFsOps == 3          \* files created or deleted in one behaviour
MaxRecords == 150      \* errors recorded by one thread in one behaviour
MaxFailures == 1       \* handling calls in which an internal step fails
PriorRecords == 98     \* errors recorded before two threads record at once
MaxHours == 2          \* hours the watched directory is followed for
MaxFsErrors == 2       \* file operations that fail in one behaviour
MaxRacingRecords == 4  \* errors recorded by two threads in one behaviour

\* ------------------------------------------------------- program constants
max_workers_two == 1 + 1     \* a pool of two worker threads
max_workers == 1
max_history_size == 100
MinQueryLen == 3
MaxQueryLen == 5000
cache_duration == 5
SecondsPerHour == 3600

Calls == 1..MaxCalls

\* the threads that call the classifier: the script thread of the UI and
\* the worker thread of the executor
Threads == {"ui", "worker"}
HistoryThreads == {"ui"}
EntryPoints == <<"handle_error", "handle_file_system_error",
                 "handle_diagram_error", "handle_agent_error">>
\* the step of handle_error that raises, if any
FailingSteps == {"none", "message", "log", "display"}
NoCall == [entry |-> "none", fail |-> "none"]
NoHistory == [limit |-> 0, at |-> 0, records |-> <<>>]
HistoryLimits == {10, 1000}

\* files that may appear in the watched directory
WatchNames == {"a.PNG", "b.bmp", "c.txt"}
NoDiagram == [filename |-> "None", created_at |-> 0]
CleanupNames == {"a.PNG", "b.bmp", "d1.png"}
MaxAges == {0, 1}          \* max_age_hours arguments
MaxCounts == {0, 1, 2}     \* max_count arguments
NoCleanup == [max_age_hours |-> 0, max_count |-> 0, at |-> 0, diagrams |-> {},
              aged |-> {}, excess |-> {}, removed |-> {}, returned |-> 0]
Workers == 1..max_workers
\* the Streamlit script thread, which renders the page of a session
ScriptThread == 0
\* the threads that run _process_query_sync
Runners == Workers \cup {ScriptThread}
Callbacks == {"a", "b"}
\* subscriber lists the owner may have registered before the first call
InitialSubscribers == {<<>>, <<"b", "a">>}
\* the calls made while the subscriber list is being changed
BroadcastCalls == {1}
\* no _emit_status is under way
NoDelivery == [pc |-> "idle", i |-> 0, subscribed |-> <<>>, received |-> <<>>,
               removed |-> {}, emits |-> 0]
raising == {"b"}            \* the callbacks that raise when invoked
FileNames == {"d1.png"}
AllNames == WatchNames \cup FileNames
ExcTypes == {"ConnectionError", "RuntimeError"}

\* A query is described by what the code looks at: its Python type, whether
\* it is truthy, its length after strip(), and whether query[:50] works.
StrQuery(raw, stripped) ==
    [type |-> "str", truthy |-> raw > 0, stripped |-> stripped, sliceable |-> TRUE]
OtherQuery(type, truthy, sliceable) ==
    [type |-> type, truthy |-> truthy, stripped |-> 0, sliceable |-> sliceable]

Queries ==
    { StrQuery(3, 3), StrQuery(2, 2),
      OtherQuery("NoneType", FALSE, FALSE), OtherQuery("list", FALSE, TRUE) }

NoQuery == OtherQuery("unset", FALSE, FALSE)
\* queries the form of the page accepts
FormQueries == {StrQuery(3, 3)}

\* --------------------------------------------------------------- values
NoneMsg == [kind |-> "None", n |-> 0]
StrOf(excType) == [kind |-> excType, n |-> 0]

AgentResult(text, success, error_message, generated_files, processing_time) ==
    [text |-> text, success |-> success, error_message |-> error_message,
     generated_files |-> generated_files, processing_time |-> processing_time]

NoResult == [text |-> "", success |-> FALSE, error_message |-> [kind |-> "unset", n |-> 0],
             generated_files |-> {}, processing_time |-> 0]

ProcessingStatus(t, stage, progress) ==
    [task |-> t, stage |-> stage, progress |-> progress]

\* the suggestions of _get_default_recovery_suggestions(category), as one item
default_recovery_suggestions(category) == <<category>>

\* message is str(error): the exception's type in the executor, the ordinal
\* of the error among those recorded in the classifier's own specifications
ErrorInfo(category, severity, excType) ==
    [category |-> category, severity |-> severity, message |-> excType,
     recovery_suggestions |-> default_recovery_suggestions(category)]

\* error_info.recovery_suggestions.extend([...]) of the entry point
extend_suggestions(info, entry) ==
    [info EXCEPT !.recovery_suggestions = Append(@, entry)]

VARIABLES
    status_callbacks,   \* self._status_callbacks, in registration order
    subOps,             \* add/remove calls made so far
    events,             \* every ProcessingStatus emitted, in emission order
    lastDelivery,       \* callbacks invoked by the most recent _emit_status
    error_history,      \* error_handler._error_history
    is_initialized,     \* self._is_initialized and self._agent is set
    now,                \* the clock
    files,              \* matching files in generated-diagrams/
    queue,              \* work queue of self._executor
    query,              \* call -> the query it was given
    fut,                \* call -> state of its executor future
    syncResult,         \* call -> what _process_query_sync returned
    futExc,             \* call -> the exception that left _process_query_sync
    collabCalls,        \* call -> how often self._agent(query) was entered
    cstate,             \* call -> position of the process_query_async coroutine
    cresult,            \* call -> the AgentResult the coroutine returned
    cpath,              \* call -> the return statement the coroutine took
    deadline,           \* call -> instant at which wait_for gives up
    started,            \* calls in the order a worker started them
    wpc,                \* worker -> position in _process_query_sync
    wtask,              \* worker -> the call it is running
    wstart,             \* worker -> start_time
    wexisting,          \* worker -> existing_files
    toolCalls,          \* create_aws_diagram invocations made so far
    constructed,        \* outcome of StreamlitAgentWrapper(...): "no", "ok", "raised"
    wrote,              \* call -> the files the collaborator wrote during it
    delivery,           \* the delivery loop of the _emit_status under way
    \* ---- error_handler (ErrorHandler), one entry per calling thread
    hpc,                \* thread -> position in the handling call
    hcall,              \* thread -> entry point and failing step of the call
    hid,                \* thread -> identity of the ErrorInfo it created
    hslice,             \* thread -> the slice it computed in _add_to_history
    houtcome,           \* thread -> how its last handling call ended
    recorded,           \* ErrorInfo objects appended so far
    failures,           \* handling calls in which a step has failed so far
    got,                \* what the last get_error_history returned
    \* ---- diagram_manager (DiagramManager) and the watched directory
    st_ctime,           \* file name -> st_ctime of the file (0: no such file),
                        \* followed for the files of WatchNames
    fsOps,              \* files created or deleted so far
    cached_diagrams,    \* self._cached_diagrams
    last_scan_time,     \* self._last_scan_time
    listed,             \* what the last get_all_diagrams returned
    served,             \* how it was served: "cache" or "scan"
    lastOp,             \* the last operation on the directory or the manager
    last_call_time,     \* instant of the last get_all_diagrams call
    latest,             \* what the last get_latest_diagram returned
    before,             \* the last snapshot of _get_existing_diagram_files
    detected,           \* what the last _detect_new_files returned
    cleaned             \* the last cleanup_old_diagrams call and what it did

vars == <<status_callbacks, subOps, events, lastDelivery, error_history,
          is_initialized, now, files, queue, query, fut, syncResult, futExc,
          collabCalls, cstate, cresult, cpath, deadline, started, wpc, wtask, wstart, wexisting,
          toolCalls, constructed, wrote, delivery,
          hpc, hcall, hid, hslice, houtcome, recorded, failures, got,
          st_ctime, fsOps, cached_diagrams, last_scan_time, listed, served, lastOp,
          last_call_time, latest, before, detected, cleaned>>

subVars == <<status_callbacks, subOps>>
emitVars == <<events, lastDelivery>>
callVars == <<query, cstate, cresult, cpath, deadline>>
futVars == <<fut, syncResult, futExc>>
workerVars == <<wpc, wtask, wstart, wexisting>>
classifierVars == <<hpc, hcall, hid, hslice, houtcome, recorded, failures, got>>
watcherVars == <<st_ctime, fsOps, cached_diagrams, last_scan_time, listed, served, lastOp,
                 last_call_time, latest, before, detected, cleaned>>
\* the executor's variables that neither the classifier nor the watcher uses
executorVars == <<status_callbacks, subOps, events, lastDelivery, is_initialized,
                  queue, query, fut, syncResult, futExc, collabCalls, cstate,
                  cresult, cpath, deadline, started, wpc, wtask, wstart, wexisting,
                  toolCalls, constructed, wrote, delivery>>

\* ------------------------------------------------------- pure operations

\* _validate_query, agent_wrapper.py:626-638
validate_query(q) ==
    IF ~q.truthy \/ q.type # "str" THEN FALSE
    ELSE IF q.stripped = 0 THEN FALSE
    ELSE IF q.stripped < MinQueryLen \/ q.stripped > MaxQueryLen THEN FALSE
    ELSE TRUE

\* the isinstance chain of the handler, agent_wrapper.py:562-569
CategoryOf(excType) ==
    IF excType \in {"ValueError", "TypeError"} THEN "validation_error"
    ELSE IF excType \in {"ConnectionError", "TimeoutError"} THEN "network_error"
    ELSE IF excType \in {"FileNotFoundError", "PermissionError", "OSError"}
         THEN "file_system_error"
    ELSE "agent_error"

\* len(self._error_history) > self._max_history_size, error_handler.py:423
history_over(h) == Len(h) > max_history_size

\* a slice that keeps the oldest records
history_head(h) == SubSeq(h, 1, max_history_size)

\* self._error_history[-self._max_history_size:], error_handler.py:424
history_tail(h) ==
    IF Len(h) <= max_history_size THEN h
    ELSE SubSeq(h, Len(h) - max_history_size + 1, Len(h))

\* ErrorHandler._add_to_history, error_handler.py:418-424, run by one thread
add_to_history(h, info) ==
    LET h2 == Append(h, info)
    IN IF history_over(h2) THEN history_tail(h2) ELSE h2

\* ErrorHandler.get_error_history, error_handler.py:449-451: h[-limit:]
get_error_history(h, limit) ==
    IF h = <<>> THEN <<>>
    ELSE IF limit = 0 \/ limit >= Len(h) THEN h
    ELSE SubSeq(h, Len(h) - limit + 1, Len(h))

\* list.remove: drops the first occurrence
RECURSIVE RemoveFirst(_, _)
RemoveFirst(s, x) ==
    IF s = <<>> THEN <<>>
    ELSE IF Head(s) = x THEN Tail(s)
    ELSE <<Head(s)>> \o RemoveFirst(Tail(s), x)

InSeq(s, x) == \E i \in 1..Len(s) : s[i] = x

\* remove_status_callback, agent_wrapper.py:107-110
remove_callback(cbs, cb) == IF InSeq(cbs, cb) THEN RemoveFirst(cbs, cb) ELSE cbs

\* add_status_callback, agent_wrapper.py:103-105
add_callback(cbs, cb) == Append(cbs, cb)

\* The delivery loop without the try/except around callback(status): the
\* first raising callback ends the loop and the exception leaves _emit_status.
RECURSIVE UncaughtPrefix(_)
UncaughtPrefix(cbs) ==
    IF cbs = <<>> THEN <<>>
    ELSE IF Head(cbs) \in raising THEN <<Head(cbs)>>
    ELSE <<Head(cbs)>> \o UncaughtPrefix(Tail(cbs))

EmitOutcome_uncaught(cbs) ==
    [delivered |-> UncaughtPrefix(cbs),
     raised |-> \E i \in 1..Len(cbs) : cbs[i] \in raising]

\* The delivery loop of _emit_status, agent_wrapper.py:122-126: every
\* callback of the list is invoked in order; what a callback raises is
\* caught and logged.
EmitOutcome(cbs) == [delivered |-> cbs, raised |-> FALSE]

\* the handler's result without its error_message
SyncErrorResult_noMessage(excType, processing_time) ==
    AgentResult("", FALSE, NoneMsg, {}, processing_time)

\* result of the handler, agent_wrapper.py:582-588
SyncErrorResult(excType, processing_time) ==
    AgentResult("", FALSE, StrOf(excType), {}, processing_time)

\* successful response, agent_wrapper.py:546-552
SyncSuccessResult(text, generated_files, processing_time) ==
    AgentResult(text, TRUE, NoneMsg, generated_files, processing_time)

\* a timeout message that does not name the timeout
TimeoutResult_noSeconds ==
    AgentResult("", FALSE, [kind |-> "timed out", n |-> 0], {}, timeout_seconds)

\* agent_wrapper.py:611-616
TimeoutResult ==
    AgentResult("", FALSE, [kind |-> "timed out after seconds", n |-> timeout_seconds],
                {}, timeout_seconds)

\* agent_wrapper.py:619-624
AsyncErrorResult(excType) ==
    AgentResult("", FALSE, [kind |-> "Async processing error", n |-> 0], {}, 0)

\* (datetime.now() - start_time).total_seconds(), agent_wrapper.py:530, 559
Elapsed(start, end) == end - start

\* file_path.suffix.lower() of the files the model writes
Suffix(f) ==
    CASE f = "d1.png" -> ".png"
      [] f = "a.PNG" -> ".png"
      [] f = "b.bmp" -> ".bmp"
      [] f = "c.txt" -> ".txt"
      [] OTHER -> ""

\* the suffixes accepted at agent_wrapper.py:648 and 664
DiagramSuffixes == {".png", ".jpg", ".jpeg", ".gif", ".svg"}

\* _get_existing_diagram_files, agent_wrapper.py:640-653
get_existing_diagram_files(dir) == {f \in dir : Suffix(f) \in DiagramSuffixes}

\* _detect_new_files, agent_wrapper.py:655-677 (as a set)
detect_new_files(dir, existing) ==
    {f \in dir : Suffix(f) \in DiagramSuffixes} \ existing

\* ------------------------------------------------------------------ state

\* ErrorHandler.__init__, error_handler.py:74-79; no handling call under way
InitClassifier ==
    /\ error_history = <<>>
    /\ hpc = [t \in Threads |-> "idle"]
    /\ hcall = [t \in Threads |-> NoCall]
    /\ hid = [t \in Threads |-> 0]
    /\ hslice = [t \in Threads |-> <<>>]
    /\ houtcome = [t \in Threads |-> "none"]
    /\ recorded = 0
    /\ failures = 0
    /\ got = NoHistory

\* DiagramManager.__init__, diagram_manager.py:49-65, with an empty folder
InitWatcher ==
    /\ st_ctime = [f \in AllNames |-> 0]
    /\ fsOps = 0
    /\ cached_diagrams = {}
    /\ last_scan_time = 0
    /\ listed = {}
    /\ served = "none"
    /\ lastOp = "none"
    /\ last_call_time = 0
    /\ latest = NoDiagram
    /\ before = {}
    /\ detected = <<>>
    /\ cleaned = NoCleanup

InitExecutor ==
    /\ subOps = 0
    /\ events = <<>>
    /\ lastDelivery = <<>>
    /\ files = {}
    /\ queue = <<>>
    /\ query = [c \in Calls |-> NoQuery]
    /\ fut = [c \in Calls |-> "none"]
    /\ syncResult = [c \in Calls |-> NoResult]
    /\ futExc = [c \in Calls |-> "none"]
    /\ collabCalls = [c \in Calls |-> 0]
    /\ cstate = [c \in Calls |-> "new"]
    /\ cresult = [c \in Calls |-> NoResult]
    /\ cpath = [c \in Calls |-> "none"]
    /\ deadline = [c \in Calls |-> 0]
    /\ started = <<>>
    /\ wpc = [w \in Runners |-> "idle"]
    /\ wtask = [w \in Runners |-> 0]
    /\ wstart = [w \in Runners |-> 0]
    /\ wexisting = [w \in Runners |-> {}]
    /\ toolCalls = 0
    /\ wrote = [c \in Calls |-> {}]
    /\ delivery = NoDelivery

\* the constructor returned: _initialize_agent set the flag, agent_wrapper.py:222
Constructed ==
    /\ constructed = "ok"
    /\ is_initialized = TRUE

\* the executor's clock counts from the first call
ExecutorClock == now = 0

\* time.time() counts from the epoch: the first reading is far more than
\* cache_duration above the initial self._last_scan_time = 0
WatcherClock == now = cache_duration

\* a wrapper whose owner has subscribed its callbacks
Init ==
    /\ status_callbacks \in InitialSubscribers
    /\ InitExecutor
    /\ ExecutorClock
    /\ Constructed
    /\ InitClassifier
    /\ InitWatcher

\* a freshly constructed wrapper: no subscriber yet
InitBroadcast ==
    /\ status_callbacks = <<>>
    /\ InitExecutor
    /\ ExecutorClock
    /\ Constructed
    /\ InitClassifier
    /\ InitWatcher

\* _emit_status(stage, message, progress), agent_wrapper.py:112-126, called
\* on behalf of call t
Emit(t, stage, progress) ==
    /\ events' = Append(events, ProcessingStatus(t, stage, progress))
    /\ lastDelivery' = EmitOutcome(status_callbacks).delivered

\* two consecutive _emit_status calls of one thread
Emit2(t, stage1, progress1, stage2, progress2) ==
    /\ events' = events \o <<ProcessingStatus(t, stage1, progress1),
                             ProcessingStatus(t, stage2, progress2)>>
    /\ lastDelivery' = EmitOutcome(status_callbacks).delivered

EmitRaised == EmitOutcome(status_callbacks).raised

\* is_available(), agent_wrapper.py:705-707: _agent and _mcp_client are set
\* when _is_initialized is
is_available == is_initialized

\* StreamlitAgentWrapper(timeout_seconds), agent_wrapper.py:83-101, which
\* runs _initialize_agent, agent_wrapper.py:128-231.  No callback can be
\* subscribed yet.  When building the MCP client or the Agent raises, the
\* handler emits the error status, clears the flag and re-raises
\* (lines 226-231): the exception leaves the constructor.
Construct(ok) ==
    /\ constructed = "no"
    /\ IF ok
       THEN /\ events' = events \o <<ProcessingStatus(0, "initializing", 10),
                                      ProcessingStatus(0, "initializing", 70),
                                      ProcessingStatus(0, "initializing", 100)>>
            /\ is_initialized' = TRUE
            /\ constructed' = "ok"
       ELSE /\ events' = events \o <<ProcessingStatus(0, "initializing", 10),
                                      ProcessingStatus(0, "error", 0)>>
            /\ is_initialized' = FALSE
            /\ constructed' = "raised"
    /\ lastDelivery' = EmitOutcome(status_callbacks).delivered
    /\ UNCHANGED <<subVars, error_history, wrote, classifierVars, delivery, watcherVars,
                   toolCalls, now, files, queue, callVars, futVars, collabCalls,
                   started, workerVars>>

\* ----------------------------------------------------- the subscriber list

AddStatusCallback(cb) ==
    /\ subOps < MaxSubOps
    /\ subOps' = subOps + 1
    /\ status_callbacks' = add_callback(status_callbacks, cb)
    /\ UNCHANGED <<emitVars, error_history, is_initialized, constructed, wrote, classifierVars, delivery,
                   watcherVars, toolCalls, now, files,
                   queue, callVars, futVars, collabCalls, started, workerVars>>

\* the delivery under way after cb was unsubscribed during it
Unsubscribed(cb) ==
    IF delivery.pc = "loop" /\ InSeq(status_callbacks, cb)
    THEN [delivery EXCEPT !.removed = @ \cup {cb}]
    ELSE delivery

RemoveStatusCallback(cb) ==
    /\ subOps < MaxSubOps
    /\ subOps' = subOps + 1
    /\ status_callbacks' = remove_callback(status_callbacks, cb)
    /\ delivery' = Unsubscribed(cb)
    /\ UNCHANGED <<emitVars, error_history, is_initialized, constructed, wrote,
                   classifierVars, watcherVars, toolCalls, now, files,
                   queue, callVars, futVars, collabCalls, started, workerVars>>

\* ------------------------------------- the delivery loop, callback by callback

\* _emit_status builds the status and enters `for callback in
\* self._status_callbacks`, agent_wrapper.py:114-122: the iterator is over the
\* list itself, not over a copy
DeliveryBegin ==
    /\ delivery.pc # "loop"
    /\ delivery.emits < MaxEmits
    /\ delivery' = [pc |-> "loop", i |-> 0, subscribed |-> status_callbacks,
                    received |-> <<>>, removed |-> {},
                    emits |-> delivery.emits + 1]
    /\ UNCHANGED <<subVars, emitVars, error_history, is_initialized, constructed, wrote,
                   classifierVars, watcherVars, toolCalls, now, files,
                   queue, callVars, futVars, collabCalls, started, workerVars>>

\* what a callback does with the subscriber list when it is invoked
CallbackActs == {"nothing", "unsubscribe_self", "unsubscribe_other"}

\* One turn of the loop, agent_wrapper.py:122-126: the list iterator yields
\* the element at its index when the list still has one there, and the
\* callback is invoked; the callback may call remove_status_callback for
\* itself or for the other callback.
DeliveryStep(act) ==
    /\ delivery.pc = "loop"
    /\ delivery.i < Len(status_callbacks)
    /\ LET callback == status_callbacks[delivery.i + 1]
           target == IF act = "unsubscribe_self" THEN callback
                     ELSE CHOOSE cb \in Callbacks : cb # callback
           invoked == [delivery EXCEPT !.i = @ + 1,
                                       !.received = Append(@, callback)]
       IN IF act = "nothing"
          THEN /\ delivery' = invoked
               /\ UNCHANGED status_callbacks
          ELSE /\ status_callbacks' = remove_callback(status_callbacks, target)
               /\ delivery' = IF InSeq(status_callbacks, target)
                               THEN [invoked EXCEPT !.removed = @ \cup {target}]
                               ELSE invoked
    /\ UNCHANGED <<subOps, emitVars, error_history, is_initialized, constructed, wrote,
                   classifierVars, watcherVars, toolCalls, now, files,
                   queue, callVars, futVars, collabCalls, started, workerVars>>

\* the iterator is exhausted: _emit_status returns
DeliveryEnd ==
    /\ delivery.pc = "loop"
    /\ delivery.i >= Len(status_callbacks)
    /\ delivery' = [delivery EXCEPT !.pc = "done"]
    /\ UNCHANGED <<subVars, emitVars, error_history, is_initialized, constructed, wrote,
                   classifierVars, watcherVars, toolCalls, now, files,
                   queue, callVars, futVars, collabCalls, started, workerVars>>

\* ------------------------------------------------------------- the clock

\* Time is followed only while a wait_for has a timer running.
Tick ==
    /\ \E c \in Calls : /\ cstate[c] = "awaiting"
                        /\ fut[c] \in {"pending", "running"}
                        /\ now < deadline[c]
    /\ now' = now + 1
    /\ UNCHANGED <<subVars, emitVars, error_history, is_initialized, constructed, wrote, classifierVars, delivery,
                   watcherVars, toolCalls, files,
                   queue, callVars, futVars, collabCalls, started, workerVars>>

\* ------------------------------------------ process_query_async coroutines

\* wait_for never gives up
wait_for_expired_never(c) == FALSE

\* asyncio.wait_for(future, timeout=self.timeout_seconds), agent_wrapper.py:606
wait_for_expired(c) == now >= deadline[c]

FutureDone(c) == fut[c] \in {"done", "raised"}

\* loop.run_in_executor(self._executor, self._process_query_sync, query),
\* agent_wrapper.py:602-606: the work item is queued and the coroutine
\* suspends in wait_for.  Calls are numbered in submission order.
SubmitAsync(c, q) ==
    /\ constructed = "ok"
    /\ cstate[c] = "new"
    /\ \A d \in Calls : d < c => cstate[d] # "new"
    /\ query' = [query EXCEPT ![c] = q]
    /\ fut' = [fut EXCEPT ![c] = "pending"]
    /\ queue' = Append(queue, c)
    /\ cstate' = [cstate EXCEPT ![c] = "awaiting"]
    /\ deadline' = [deadline EXCEPT ![c] = now + timeout_seconds]
    /\ UNCHANGED <<subVars, emitVars, error_history, is_initialized, constructed, wrote, classifierVars, delivery,
                   watcherVars, toolCalls, now, files,
                   syncResult, futExc, collabCalls, cresult, cpath, started,
                   workerVars>>

\* The future completed before the timeout: `return result`
\* (agent_wrapper.py:606-607), or the exception it carries reaches
\* `except Exception` (agent_wrapper.py:617-624).
AwaitReturn(c) ==
    /\ cstate[c] = "awaiting"
    /\ FutureDone(c)
    /\ cstate' = [cstate EXCEPT ![c] = "returned"]
    /\ IF fut[c] = "done"
       THEN /\ cresult' = [cresult EXCEPT ![c] = syncResult[c]]
            /\ cpath' = [cpath EXCEPT ![c] = "completed"]
            /\ UNCHANGED emitVars
       ELSE /\ Emit(c, "error", 0)
            /\ cresult' = [cresult EXCEPT ![c] = AsyncErrorResult(futExc[c])]
            /\ cpath' = [cpath EXCEPT ![c] = "async_error"]
    /\ UNCHANGED <<subVars, error_history, is_initialized, constructed, wrote, classifierVars, delivery,
                   watcherVars, toolCalls, now, files, queue,
                   query, deadline, futVars, collabCalls, started, workerVars>>

\* a cancel() that leaves the work item in place
cancel_ignored(state) == state

\* Future.cancel() of the executor's future, reached from the cancellation of
\* wait_for (agent_wrapper.py:606): it succeeds only for a work item that no
\* worker has taken
cancel(state) == IF state = "pending" THEN "cancelled" ELSE state

\* The timeout fires first: wait_for cancels the future it waits on.  The
\* executor's future is cancelled only if no worker has started it.  The
\* loop runs its timers in deadline order, and the deadlines are in
\* submission order.
TimeoutCancel(c) ==
    /\ cstate[c] = "awaiting"
    /\ ~FutureDone(c)
    /\ wait_for_expired(c)
    /\ \A d \in Calls : d < c => ~(cstate[d] = "awaiting" /\ ~FutureDone(d))
    /\ cstate' = [cstate EXCEPT ![c] = "timing_out"]
    /\ fut' = [fut EXCEPT ![c] = cancel(fut[c])]
    /\ UNCHANGED <<subVars, emitVars, error_history, is_initialized, constructed, wrote, classifierVars, delivery,
                   watcherVars, toolCalls, now, files,
                   queue, query, cresult, cpath, deadline, syncResult, futExc,
                   collabCalls, started, workerVars>>

\* `except asyncio.TimeoutError`, agent_wrapper.py:609-616
TimeoutReturn(c) ==
    /\ cstate[c] = "timing_out"
    /\ Emit(c, "error", 0)
    /\ cstate' = [cstate EXCEPT ![c] = "returned"]
    /\ cresult' = [cresult EXCEPT ![c] = TimeoutResult]
    /\ cpath' = [cpath EXCEPT ![c] = "timeout"]
    /\ UNCHANGED <<subVars, error_history, is_initialized, constructed, wrote, classifierVars, delivery,
                   watcherVars, toolCalls, now, files, queue,
                   query, deadline, futVars, collabCalls, started, workerVars>>

\* --------------------------------------- _process_query_sync on a worker

\* the worker leaves _process_query_sync
WorkerIdle(w) ==
    /\ wpc' = [wpc EXCEPT ![w] = "idle"]
    /\ wtask' = [wtask EXCEPT ![w] = 0]
    /\ wstart' = [wstart EXCEPT ![w] = 0]
    /\ wexisting' = [wexisting EXCEPT ![w] = {}]

\* an exception that leaves _process_query_sync is stored in the future
FutureRaises(t, excType) ==
    /\ fut' = [fut EXCEPT ![t] = "raised"]
    /\ futExc' = [futExc EXCEPT ![t] = excType]
    /\ UNCHANGED syncResult

FutureReturns(t, result) ==
    /\ fut' = [fut EXCEPT ![t] = "done"]
    /\ syncResult' = [syncResult EXCEPT ![t] = result]
    /\ UNCHANGED futExc

\* The handler, agent_wrapper.py:557-588, entered with exception excType
\* when the history is hist.  The argument query[:50] is evaluated before
\* handle_error is entered; for a query that cannot be sliced it raises
\* TypeError, which leaves _process_query_sync.
Handler(t, excType, hist, start) ==
    IF ~query[t].sliceable
    THEN /\ FutureRaises(t, "TypeError")
         /\ error_history' = hist
         /\ UNCHANGED emitVars
    ELSE /\ error_history' = add_to_history(hist,
                ErrorInfo(CategoryOf(excType), "medium", excType))
         /\ Emit(t, "error", 0)
         /\ IF EmitRaised
            THEN FutureRaises(t, "CallbackError")
            ELSE FutureReturns(t, SyncErrorResult(excType, Elapsed(start, now)))

\* An exception that leaves _emit_status inside the try block, after event
\* ev: the handler runs, and its own _emit_status raises again.
CallbackFailure(t, ev) ==
    /\ events' = events \o <<ev, ProcessingStatus(t, "error", 0)>>
    /\ lastDelivery' = EmitOutcome(status_callbacks).delivered
    /\ error_history' = add_to_history(error_history,
           ErrorInfo(CategoryOf("CallbackError"), "medium", "CallbackError"))
    /\ FutureRaises(t, "CallbackError")

\* handle_agent_error, error_handler.py:216-253, as called at
\* agent_wrapper.py:519-525
handle_agent_error(hist, excType) ==
    add_to_history(hist, extend_suggestions(ErrorInfo("agent_error", "high", excType),
                                            "handle_agent_error"))

\* handle_error as called at agent_wrapper.py:487-493 and 499-505
handle_error(hist, category, excType) ==
    add_to_history(hist, ErrorInfo(category, "medium", excType))

\* _process_query_sync of call t on thread w, from the first status to the
\* call of the collaborator, agent_wrapper.py:508-518
EnterCollaborator(w, t) ==
    /\ Emit2(t, "processing", 20, "processing", 40)
    /\ fut' = [fut EXCEPT ![t] = "running"]
    /\ wpc' = [wpc EXCEPT ![w] = "agent"]
    /\ wtask' = [wtask EXCEPT ![w] = t]
    /\ wstart' = [wstart EXCEPT ![w] = now]
    /\ wexisting' = [wexisting EXCEPT ![w] = get_existing_diagram_files(files)]
    /\ collabCalls' = [collabCalls EXCEPT ![t] = @ + 1]

\* render_query_form, app.py:194-220: the form was submitted with a query it
\* accepts, the wrapper is available, and the script thread itself calls
\* agent_wrapper._process_query_sync(query.strip()), here up to the call of
\* the collaborator.  Calls are numbered in submission order.
RenderQueryForm(c, q) ==
    /\ constructed = "ok"
    /\ is_available
    /\ validate_query(q)
    /\ wpc[ScriptThread] = "idle"
    /\ cstate[c] = "new"
    /\ \A d \in Calls : d < c => cstate[d] # "new"
    /\ query' = [query EXCEPT ![c] = q]
    /\ cstate' = [cstate EXCEPT ![c] = "direct"]
    /\ EnterCollaborator(ScriptThread, c)
    /\ UNCHANGED <<subVars, error_history, is_initialized, constructed, wrote,
                   classifierVars, delivery, watcherVars, toolCalls, now, files, queue,
                   cresult, cpath, deadline, syncResult, futExc, started>>

\* A worker thread of the ThreadPoolExecutor takes the next work item (a
\* cancelled item is dropped) and runs _process_query_sync up to the call of
\* the collaborator, agent_wrapper.py:478-518: validation, the
\* initialization check, the first status, the snapshot of the existing
\* files, the second status.
Start(w) ==
    /\ wpc[w] = "idle"
    /\ queue # <<>>
    /\ queue' = Tail(queue)
    /\ LET t == Head(queue)
       IN IF fut[t] = "cancelled"
          THEN UNCHANGED <<futVars, started, workerVars, emitVars, error_history,
                           collabCalls>>
          ELSE /\ started' = Append(started, t)
               /\ IF ~validate_query(query[t])
                  THEN /\ Handler(t, "ValueError",
                                  handle_error(error_history, "validation_error",
                                               "ValueError"), now)
                       /\ UNCHANGED <<workerVars, collabCalls>>
                  ELSE IF ~is_initialized
                  THEN /\ Handler(t, "RuntimeError",
                                  handle_error(error_history, "configuration_error",
                                               "RuntimeError"), now)
                       /\ UNCHANGED <<workerVars, collabCalls>>
                  ELSE IF EmitRaised
                  THEN /\ CallbackFailure(t, ProcessingStatus(t, "processing", 20))
                       /\ UNCHANGED <<workerVars, collabCalls>>
                  ELSE /\ EnterCollaborator(w, t)
                       /\ UNCHANGED <<syncResult, futExc, error_history>>
    /\ UNCHANGED <<subVars, is_initialized, constructed, wrote, classifierVars, delivery,
                   watcherVars, toolCalls, now, files, callVars>>

\* The collaborator calls create_aws_diagram, agent_wrapper.py:236-327: the
\* tool reports its start, then writes the diagram and reports it
\* (lines 277-323) or fails and reports the failure (lines 325-327); either
\* way it returns a string to the collaborator.
CreateAwsDiagram(w, ok, f) ==
    /\ wpc[w] = "agent"
    /\ toolCalls < MaxToolCalls
    /\ toolCalls' = toolCalls + 1
    /\ IF ok
       THEN /\ files' = files \cup {f}
            /\ wrote' = [wrote EXCEPT ![wtask[w]] = @ \cup {f}]
            /\ Emit2(wtask[w], "generating_diagram", 80, "generating_diagram", 90)
       ELSE /\ UNCHANGED <<files, wrote>>
            /\ Emit2(wtask[w], "generating_diagram", 80, "error", 0)
    /\ UNCHANGED <<subVars, error_history, is_initialized, constructed, classifierVars, delivery,
                   watcherVars, now, queue, callVars,
                   futVars, collabCalls, started, wpc, wtask, wstart, wexisting>>

\* The collaborator returns its text: agent_wrapper.py:527-555
AgentReturn(w, text) ==
    /\ wpc[w] = "agent"
    /\ LET t == wtask[w]
       IN IF EmitRaised
          THEN CallbackFailure(t, ProcessingStatus(t, "completing", 95))
          ELSE /\ Emit2(t, "completing", 95, "completing", 100)
               /\ FutureReturns(t, SyncSuccessResult(text,
                                      detect_new_files(files, wexisting[w]),
                                      Elapsed(wstart[w], now)))
               /\ UNCHANGED error_history
    /\ WorkerIdle(w)
    /\ UNCHANGED <<subVars, is_initialized, constructed, wrote, classifierVars, delivery,
                   watcherVars, toolCalls, now, files, queue, callVars,
                   collabCalls, started>>

\* The collaborator raises: agent_wrapper.py:519-525, then the handler
AgentRaise(w, excType) ==
    /\ wpc[w] = "agent"
    /\ Handler(wtask[w], excType, handle_agent_error(error_history, excType),
               wstart[w])
    /\ WorkerIdle(w)
    /\ UNCHANGED <<subVars, is_initialized, constructed, wrote, classifierVars, delivery,
                   watcherVars, toolCalls, now, files, queue, callVars,
                   collabCalls, started>>

\* ------------------------------------------------ error_handler.ErrorHandler

\* The callers take turns over the four entry points: the n-th error
\* recorded arrives through EntryOf(n).
EntryOf(n) == EntryPoints[(n % Len(EntryPoints)) + 1]

\* category and severity each entry point passes to handle_error
\* (error_handler.py:161-165, 199-203, 238-242); handle_error itself is
\* called as at agent_wrapper.py:487-493, with the default severity
CategoryOfEntry(entry) ==
    CASE entry = "handle_file_system_error" -> "file_system_error"
      [] entry = "handle_diagram_error" -> "diagram_error"
      [] entry = "handle_agent_error" -> "agent_error"
      [] OTHER -> "validation_error"

SeverityOfEntry(entry) ==
    CASE entry = "handle_diagram_error" -> "low"
      [] entry = "handle_agent_error" -> "high"
      [] OTHER -> "medium"

RECURSIVE ExtendIn(_, _, _)
\* the ErrorInfo object id is extended in place: every list that holds the
\* object shows it
ExtendIn(h, id, entry) ==
    IF h = <<>> THEN <<>>
    ELSE <<IF Head(h).message = id THEN extend_suggestions(Head(h), entry)
           ELSE Head(h)>> \o ExtendIn(Tail(h), id, entry)

\* Thread t enters a handling call: _create_error_info and _log_error
\* (error_handler.py:124-127), then the append of _add_to_history
\* (error_handler.py:420).  Nothing catches what the first two raise.
HandleBegin(t, max, steps) ==
    /\ hpc[t] = "idle"
    /\ recorded < max
    /\ \E fail \in steps :
         LET entry == EntryOf(recorded + 1)
         IN /\ fail # "none" => failures < MaxFailures
            /\ failures' = IF fail = "none" THEN failures ELSE failures + 1
            /\ IF fail \in {"message", "log"}
               THEN /\ houtcome' = [houtcome EXCEPT ![t] = "raised"]
                    /\ UNCHANGED <<error_history, hpc, hcall, hid, recorded>>
               ELSE /\ recorded' = recorded + 1
                    /\ error_history' = Append(error_history,
                           ErrorInfo(CategoryOfEntry(entry), SeverityOfEntry(entry),
                                     recorded + 1))
                    /\ hpc' = [hpc EXCEPT ![t] = "check"]
                    /\ hcall' = [hcall EXCEPT ![t] = [entry |-> entry, fail |-> fail]]
                    /\ hid' = [hid EXCEPT ![t] = recorded + 1]
                    /\ houtcome' = [houtcome EXCEPT ![t] = "none"]
    /\ got' = NoHistory
    /\ UNCHANGED <<hslice, executorVars, now, files, watcherVars>>

\* the test of error_handler.py:423 and, when it is true, the evaluation of
\* the slice on the right of the assignment of line 424
HandleCheck(t) ==
    /\ hpc[t] = "check"
    /\ IF history_over(error_history)
       THEN /\ hslice' = [hslice EXCEPT ![t] = history_tail(error_history)]
            /\ hpc' = [hpc EXCEPT ![t] = "assign"]
       ELSE /\ hpc' = [hpc EXCEPT ![t] = "finish"]
            /\ UNCHANGED hslice
    /\ UNCHANGED <<error_history, hcall, hid, houtcome, recorded, failures, got,
                   executorVars, now, files, watcherVars>>

\* the assignment of error_handler.py:424
HandleAssign(t) ==
    /\ hpc[t] = "assign"
    /\ error_history' = hslice[t]
    /\ hslice' = [hslice EXCEPT ![t] = <<>>]
    /\ hpc' = [hpc EXCEPT ![t] = "finish"]
    /\ UNCHANGED <<hcall, hid, houtcome, recorded, failures, got,
                   executorVars, now, files, watcherVars>>

\* _display_error_in_ui (error_handler.py:133-134), the return of
\* handle_error, and in the three specific entry points the extension of the
\* suggestions of the returned object (error_handler.py:169, 207, 246)
HandleFinish(t) ==
    /\ hpc[t] = "finish"
    /\ IF hcall[t].fail = "display"
       THEN /\ houtcome' = [houtcome EXCEPT ![t] = "raised"]
            /\ UNCHANGED <<error_history, hslice>>
       ELSE /\ houtcome' = [houtcome EXCEPT ![t] = "returned"]
            /\ IF hcall[t].entry = "handle_error"
               THEN UNCHANGED <<error_history, hslice>>
               ELSE /\ error_history' = ExtendIn(error_history, hid[t], hcall[t].entry)
                    /\ hslice' = [u \in Threads |->
                                     ExtendIn(hslice[u], hid[t], hcall[t].entry)]
    /\ hpc' = [hpc EXCEPT ![t] = "idle"]
    /\ hcall' = [hcall EXCEPT ![t] = NoCall]
    /\ hid' = [hid EXCEPT ![t] = 0]
    /\ UNCHANGED <<recorded, failures, got, executorVars, now, files, watcherVars>>

\* get_error_history(limit), called by thread t between its handling calls
GetErrorHistory(t, limit) ==
    /\ hpc[t] = "idle"
    /\ got' = [limit |-> limit, at |-> recorded,
               records |-> get_error_history(error_history, limit)]
    /\ UNCHANGED <<error_history, hpc, hcall, hid, hslice, houtcome, recorded,
                   failures, executorVars, now, files, watcherVars>>

\* ------------------------------------------ diagram_manager.DiagramManager

\* self.supported_extensions, diagram_manager.py:57
supported_extensions == {".png", ".jpg", ".jpeg", ".gif", ".bmp", ".svg", ".webp"}

\* _is_supported_image, diagram_manager.py:324-334
is_supported_image(f) == Suffix(f) \in supported_extensions

\* DiagramInfo as built by _get_diagram_info, diagram_manager.py:336-365:
\* created_at is the file's st_ctime
DiagramInfo(f, ctime) == [filename |-> f, created_at |-> ctime]

\* The files of the model are written once, whole: st_mtime is st_ctime.
st_mtime == st_ctime

\* the scan loop of get_all_diagrams, diagram_manager.py:129-144
scan_diagrams(dir, ctime) ==
    {DiagramInfo(f, ctime[f]) : f \in {g \in dir : is_supported_image(g)}}

\* a cache test that holds once the duration has passed
cache_valid_inverted(current_time) ==
    (current_time - last_scan_time) > cache_duration

\* the cache test of get_all_diagrams, diagram_manager.py:109
cache_valid(current_time) ==
    (current_time - last_scan_time) < cache_duration

\* the final validation of get_all_diagrams, diagram_manager.py:162-174
valid_diagrams(diagrams, dir) == {d \in diagrams : d.filename \in dir}

\* the oldest of the diagrams
latest_candidates_oldest(diagrams) ==
    {d \in diagrams : \A e \in diagrams : e.created_at >= d.created_at}

\* max(diagrams, key=lambda d: d.created_at), diagram_manager.py:83: one of
\* the diagrams of maximal created_at
latest_candidates(diagrams) ==
    {d \in diagrams : \A e \in diagrams : e.created_at <= d.created_at}

\* the lists in which new_files.sort(key=st_mtime, reverse=True) may leave
\* the files of S, agent_wrapper.py:668-672
SortedNewestFirst(S, mtime) ==
    {q \in [1..Cardinality(S) -> S] :
        /\ \A i, j \in 1..Cardinality(S) : i # j => q[i] # q[j]
        /\ \A i, j \in 1..Cardinality(S) : i < j => mtime[q[i]] >= mtime[q[j]]}

\* a file is written into the watched directory, new or over an old one
CreateFile(f) ==
    /\ fsOps < MaxFsOps
    /\ fsOps' = fsOps + 1
    /\ files' = files \cup {f}
    /\ st_ctime' = [st_ctime EXCEPT ![f] = now]
    /\ lastOp' = "fs"
    /\ UNCHANGED <<cleaned, cached_diagrams, last_scan_time, listed, served, last_call_time,
                   latest, before, detected, now, executorVars, error_history,
                   classifierVars>>

\* a file of the watched directory is deleted
DeleteFile(f) ==
    /\ fsOps < MaxFsOps
    /\ f \in files
    /\ fsOps' = fsOps + 1
    /\ files' = files \ {f}
    /\ st_ctime' = [st_ctime EXCEPT ![f] = 0]
    /\ lastOp' = "fs"
    /\ UNCHANGED <<cleaned, cached_diagrams, last_scan_time, listed, served, last_call_time,
                   latest, before, detected, now, executorVars, error_history,
                   classifierVars>>

\* a second passes
WatchTick ==
    /\ now < cache_duration + MaxWatchTime
    /\ now' = now + 1
    /\ UNCHANGED <<files, watcherVars, executorVars, error_history, classifierVars>>

\* get_all_diagrams(force_refresh), diagram_manager.py:95-174, in a folder
\* that exists and can be read
GetAllDiagrams(force_refresh) ==
    /\ IF ~force_refresh /\ cache_valid(now)
       THEN /\ listed' = cached_diagrams
            /\ served' = "cache"
            /\ UNCHANGED <<cached_diagrams, last_scan_time>>
       ELSE LET diagrams == scan_diagrams(files, st_ctime)
            IN /\ cached_diagrams' = diagrams
               /\ last_scan_time' = now
               /\ listed' = valid_diagrams(diagrams, files)
               /\ served' = "scan"
    /\ lastOp' = IF force_refresh THEN "refresh" ELSE "list"
    /\ last_call_time' = now
    /\ UNCHANGED <<cleaned, st_ctime, fsOps, latest, before, detected, files, now,
                   executorVars, error_history, classifierVars>>

\* get_latest_diagram, diagram_manager.py:67-93: get_all_diagrams() and the
\* maximum of created_at
GetLatestDiagram ==
    /\ LET hit == cache_valid(now)
           scanned == scan_diagrams(files, st_ctime)
           diagrams == IF hit THEN cached_diagrams ELSE valid_diagrams(scanned, files)
       IN /\ IF hit THEN UNCHANGED <<cached_diagrams, last_scan_time>>
             ELSE /\ cached_diagrams' = scanned
                  /\ last_scan_time' = now
          /\ IF diagrams = {} THEN latest' = NoDiagram
             ELSE latest' \in latest_candidates(diagrams)
    /\ lastOp' = "latest"
    /\ UNCHANGED <<cleaned, st_ctime, fsOps, listed, served, last_call_time, before, detected,
                   files, now, executorVars, error_history, classifierVars>>

\* existing_files = self._get_existing_diagram_files(), agent_wrapper.py:512
Snapshot ==
    /\ before' = get_existing_diagram_files(files)
    /\ lastOp' = "snapshot"
    /\ UNCHANGED <<cleaned, st_ctime, fsOps, cached_diagrams, last_scan_time, listed, served,
                   last_call_time, latest, detected, files, now, executorVars,
                   error_history, classifierVars>>

\* self._detect_new_files(existing_files), agent_wrapper.py:655-677
DetectNew ==
    /\ detected' \in SortedNewestFirst(detect_new_files(files, before), st_mtime)
    /\ lastOp' = "detect"
    /\ UNCHANGED <<cleaned, st_ctime, fsOps, cached_diagrams, last_scan_time, listed, served,
                   last_call_time, latest, before, files, now, executorVars,
                   error_history, classifierVars>>

\* ------------------------------------------- cleanup and failing file access

\* handle_file_system_error(..., show_in_ui=False), error_handler.py:138-176
handle_file_system_error(hist, excType) ==
    add_to_history(hist,
        extend_suggestions(ErrorInfo("file_system_error", "medium", excType),
                           "handle_file_system_error"))

RECURSIVE record_fs_errors(_, _)
\* n file operations fail one after the other, each with PermissionError
record_fs_errors(hist, n) ==
    IF n = 0 THEN hist
    ELSE record_fs_errors(handle_file_system_error(hist, "PermissionError"), n - 1)

\* a test that also takes the files of exactly the maximal age
older_than_or_equal(d, current_time, max_age_hours) ==
    (current_time - d.created_at) >= max_age_hours * SecondsPerHour

\* age_hours > max_age_hours, diagram_manager.py:245-247, with
\* age_hours = (current_time - created_at).total_seconds() / 3600
older_than(d, current_time, max_age_hours) ==
    (current_time - d.created_at) > max_age_hours * SecondsPerHour

\* excess_count, diagram_manager.py:254-257
excess_count(remaining, max_count) ==
    IF Cardinality(remaining) > max_count
    THEN Cardinality(remaining) - max_count ELSE 0

\* the first n diagrams after sort(key=created_at), diagram_manager.py:256-260:
\* the sort is stable, diagrams of one created_at stay in the order of iterdir
oldest_first(remaining, n) ==
    {E \in SUBSET remaining :
        /\ Cardinality(E) = n
        /\ \A d \in E, e \in remaining \ E : d.created_at <= e.created_at}

\* _delete_diagram_file, diagram_manager.py:410-444: the diagrams whose file
\* unlink() removes; for the others it catches the error and returns False
unlinked(diagrams, undeletable) == {d \in diagrams : d.filename \notin undeletable}

FileNamesOf(diagrams) == {d.filename : d \in diagrams}

\* an hour passes
HourPasses ==
    /\ now < MaxHours * SecondsPerHour
    /\ now' = now + SecondsPerHour
    /\ UNCHANGED <<files, watcherVars, executorVars, error_history, classifierVars>>

\* cleanup_old_diagrams(max_age_hours, max_count), diagram_manager.py:220-273,
\* while unlink() fails for the files of undeletable
CleanupOldDiagrams(max_age_hours, max_count, undeletable) ==
    LET diagrams == valid_diagrams(scan_diagrams(files, st_ctime), files)
        aged == {d \in diagrams : older_than(d, now, max_age_hours)}
        files1 == files \ FileNamesOf(unlinked(aged, undeletable))
        remaining == valid_diagrams(scan_diagrams(files1, st_ctime), files1)
    IN /\ Len(error_history) + 2 * Cardinality(undeletable) <= MaxFsErrors
       /\ lastOp' = "cleanup"
       /\ IF diagrams = {}
          THEN /\ cleaned' = [NoCleanup EXCEPT !.max_age_hours = max_age_hours,
                                              !.max_count = max_count, !.at = now]
               /\ cached_diagrams' = {}
               /\ last_scan_time' = now
               /\ UNCHANGED <<files, st_ctime, error_history>>
          ELSE \E excess \in oldest_first(remaining, excess_count(remaining, max_count)) :
                 LET removed == unlinked(aged, undeletable) \cup unlinked(excess, undeletable)
                     failed == Cardinality(aged \ unlinked(aged, undeletable))
                               + Cardinality(excess \ unlinked(excess, undeletable))
                     deleted_count == Cardinality(aged) + Cardinality(excess)
                 IN /\ files' = files \ FileNamesOf(removed)
                    /\ st_ctime' = [f \in AllNames |->
                                      IF f \in FileNamesOf(removed) THEN 0 ELSE st_ctime[f]]
                    /\ error_history' = record_fs_errors(error_history, failed)
                    /\ cleaned' = [max_age_hours |-> max_age_hours,
                                   max_count |-> max_count, at |-> now,
                                   diagrams |-> diagrams, aged |-> aged,
                                   excess |-> excess, removed |-> removed,
                                   returned |-> deleted_count]
                    /\ IF deleted_count > 0
                       THEN /\ cached_diagrams' = {}
                            /\ last_scan_time' = 0
                       ELSE /\ cached_diagrams' = remaining
                            /\ last_scan_time' = now
       /\ UNCHANGED <<fsOps, listed, served, last_call_time, latest, before, detected,
                      now, executorVars, classifierVars>>

\* a listing that forgets the cache
scan_error_listing_empty(cached) == {}

\* `return self._cached_diagrams.copy() if self._cached_diagrams else []`,
\* diagram_manager.py:160
scan_error_listing(cached) == IF cached # {} THEN cached ELSE {}

\* get_all_diagrams(force_refresh), diagram_manager.py:95-160, when the scan
\* of the folder raises PermissionError or OSError: the handler of
\* lines 152-160 records the error and returns
GetAllDiagramsScanError(force_refresh) ==
    /\ force_refresh \/ ~cache_valid(now)
    /\ Len(error_history) < MaxFsErrors
    /\ error_history' = handle_file_system_error(error_history, "PermissionError")
    /\ listed' = scan_error_listing(cached_diagrams)
    /\ served' = "scan_error"
    /\ lastOp' = "scan_error"
    /\ last_call_time' = now
    /\ UNCHANGED <<cleaned, cached_diagrams, last_scan_time, st_ctime, fsOps, latest,
                   before, detected, files, now, executorVars, classifierVars>>

\* ---------------------------------------------------------- specification

Next ==
    \/ Tick
    \/ \E c \in Calls, q \in Queries : SubmitAsync(c, q)
    \/ \E c \in Calls : AwaitReturn(c)
    \/ \E c \in Calls : TimeoutCancel(c)
    \/ \E c \in Calls : TimeoutReturn(c)
    \/ \E w \in Workers : Start(w)
    \/ \E w \in Workers, ok \in BOOLEAN, f \in FileNames : CreateAwsDiagram(w, ok, f)
    \/ \E w \in Workers, text \in {"OK"} : AgentReturn(w, text)
    \/ \E w \in Workers, e \in ExcTypes : AgentRaise(w, e)

\* the executor with a fixed subscriber list
Spec == Init /\ [][Next]_vars

NextApp ==
    \/ Tick
    \/ \E c \in Calls, q \in FormQueries : SubmitAsync(c, q)
    \/ \E c \in Calls, q \in FormQueries : RenderQueryForm(c, q)
    \/ \E c \in Calls : AwaitReturn(c)
    \/ \E c \in Calls : TimeoutCancel(c)
    \/ \E c \in Calls : TimeoutReturn(c)
    \/ \E w \in Workers : Start(w)
    \/ \E w \in Runners, ok \in BOOLEAN, f \in FileNames : CreateAwsDiagram(w, ok, f)
    \/ \E w \in Runners, text \in {"OK"} : AgentReturn(w, text)
    \/ \E w \in Runners, e \in ExcTypes : AgentRaise(w, e)

\* the wrapper of a session whose page calls _process_query_sync itself,
\* next to callers of process_query_async
SpecApp == Init /\ [][NextApp]_vars

\* The event loop keeps running: time passes while a timer is pending, and a
\* coroutine whose future is done or whose timer has fired is resumed.
\* Nothing is assumed about the worker or the collaborator.
Fairness ==
    /\ WF_vars(Tick)
    /\ \A c \in Calls : /\ WF_vars(AwaitReturn(c))
                        /\ WF_vars(TimeoutCancel(c))
                        /\ WF_vars(TimeoutReturn(c))

FairSpec == Init /\ [][Next]_vars /\ Fairness

NextBroadcast ==
    \/ \E cb \in Callbacks : AddStatusCallback(cb)
    \/ \E cb \in Callbacks : RemoveStatusCallback(cb)
    \/ Tick
    \/ \E c \in BroadcastCalls, q \in Queries : SubmitAsync(c, q)
    \/ \E c \in BroadcastCalls : AwaitReturn(c)
    \/ \E c \in BroadcastCalls : TimeoutCancel(c)
    \/ \E c \in BroadcastCalls : TimeoutReturn(c)
    \/ \E w \in Workers : Start(w)
    \/ \E w \in Workers, ok \in BOOLEAN, f \in FileNames : CreateAwsDiagram(w, ok, f)
    \/ \E w \in Workers, text \in {"OK"} : AgentReturn(w, text)
    \/ \E w \in Workers, e \in ExcTypes : AgentRaise(w, e)

\* one call while the owner subscribes and unsubscribes callbacks
SpecBroadcast == InitBroadcast /\ [][NextBroadcast]_vars

NextDelivery ==
    \/ DeliveryBegin
    \/ \E act \in CallbackActs : DeliveryStep(act)
    \/ DeliveryEnd
    \/ \E cb \in Callbacks : AddStatusCallback(cb)
    \/ \E cb \in Callbacks : RemoveStatusCallback(cb)

\* _emit_status followed callback by callback while callbacks and other
\* threads change the subscriber list
SpecDelivery == Init /\ [][NextDelivery]_vars

\* before the wrapper is constructed, agent_wrapper.py:90-98
InitConstruct ==
    /\ status_callbacks = <<>>
    /\ InitExecutor
    /\ ExecutorClock
    /\ constructed = "no"
    /\ is_initialized = FALSE
    /\ InitClassifier
    /\ InitWatcher

NextConstruct ==
    \/ \E ok \in BOOLEAN : Construct(ok)
    \/ Tick
    \/ \E c \in BroadcastCalls, q \in Queries : SubmitAsync(c, q)
    \/ \E c \in BroadcastCalls : AwaitReturn(c)
    \/ \E c \in BroadcastCalls : TimeoutCancel(c)
    \/ \E c \in BroadcastCalls : TimeoutReturn(c)
    \/ \E w \in Workers : Start(w)
    \/ \E w \in Workers, ok \in BOOLEAN, f \in FileNames : CreateAwsDiagram(w, ok, f)
    \/ \E w \in Workers, text \in {"OK"} : AgentReturn(w, text)
    \/ \E w \in Workers, e \in ExcTypes : AgentRaise(w, e)

\* construction of the wrapper, then one call
SpecConstruct == InitConstruct /\ [][NextConstruct]_vars

\* a DiagramManager on an empty folder
InitWatch ==
    /\ status_callbacks = <<>>
    /\ InitExecutor
    /\ Constructed
    /\ WatcherClock
    /\ InitClassifier
    /\ InitWatcher

NextWatcher ==
    \/ \E f \in WatchNames : CreateFile(f)
    \/ \E f \in WatchNames : DeleteFile(f)
    \/ WatchTick
    \/ \E force_refresh \in BOOLEAN : GetAllDiagrams(force_refresh)
    \/ GetLatestDiagram

\* the DiagramManager while files come and go
SpecWatcher == InitWatch /\ [][NextWatcher]_vars

NextDetect ==
    \/ \E f \in WatchNames : CreateFile(f)
    \/ \E f \in WatchNames : DeleteFile(f)
    \/ WatchTick
    \/ Snapshot
    \/ DetectNew

\* snapshots and diffs of the directory while files come and go
SpecDetect == InitWatch /\ [][NextDetect]_vars

NextCleanup ==
    \/ \E f \in CleanupNames : CreateFile(f)
    \/ HourPasses
    \/ \E max_age_hours \in MaxAges, max_count \in MaxCounts,
          undeletable \in {{}} \cup {{f} : f \in CleanupNames} :
          CleanupOldDiagrams(max_age_hours, max_count, undeletable)

\* cleanup of a folder that fills over hours
SpecCleanup == InitWatch /\ [][NextCleanup]_vars

NextScanError ==
    \/ \E f \in WatchNames : CreateFile(f)
    \/ \E f \in WatchNames : DeleteFile(f)
    \/ WatchTick
    \/ \E force_refresh \in BOOLEAN : GetAllDiagrams(force_refresh)
    \/ \E force_refresh \in BOOLEAN : GetAllDiagramsScanError(force_refresh)

\* listings of a folder that at times cannot be read
SpecScanError == InitWatch /\ [][NextScanError]_vars

\* the classifier used by one thread
InitHistory ==
    /\ status_callbacks = <<>>
    /\ InitExecutor
    /\ ExecutorClock
    /\ Constructed
    /\ InitClassifier
    /\ InitWatcher

NextHistory ==
    \/ \E t \in HistoryThreads : HandleBegin(t, MaxRecords, FailingSteps)
    \/ \E t \in HistoryThreads : HandleCheck(t)
    \/ \E t \in HistoryThreads : HandleAssign(t)
    \/ \E t \in HistoryThreads : HandleFinish(t)
    \/ \E t \in HistoryThreads, limit \in HistoryLimits : GetErrorHistory(t, limit)

SpecHistory == InitHistory /\ [][NextHistory]_vars

\* the record the n-th handling call leaves in the history when no step fails
RecordOf(n) ==
    LET entry == EntryOf(n)
        info == ErrorInfo(CategoryOfEntry(entry), SeverityOfEntry(entry), n)
    IN IF entry = "handle_error" THEN info ELSE extend_suggestions(info, entry)

\* a classifier that has recorded PriorRecords errors, one call at a time
InitRacing ==
    /\ status_callbacks = <<>>
    /\ InitExecutor
    /\ ExecutorClock
    /\ Constructed
    /\ InitWatcher
    /\ hpc = [t \in Threads |-> "idle"]
    /\ hcall = [t \in Threads |-> NoCall]
    /\ hid = [t \in Threads |-> 0]
    /\ hslice = [t \in Threads |-> <<>>]
    /\ houtcome = [t \in Threads |-> "none"]
    /\ recorded = PriorRecords
    /\ failures = 0
    /\ got = NoHistory
    /\ error_history = [n \in 1..PriorRecords |-> RecordOf(n)]

\* the classifier used by two threads at once
NextRacing ==
    \/ \E t \in Threads : HandleBegin(t, PriorRecords + MaxRacingRecords, {"none"})
    \/ \E t \in Threads : HandleCheck(t)
    \/ \E t \in Threads : HandleAssign(t)
    \/ \E t \in Threads : HandleFinish(t)

SpecRacing == InitRacing /\ [][NextRacing]_vars

\* =================================================================== claims

\* what the specification calls an invalid query: not a string, empty or
\* whitespace-only, or of trimmed length below 3 or above 5000
InvalidQuery(q) ==
    \/ q.type # "str"
    \/ q.stripped = 0
    \/ q.stripped < 3
    \/ q.stripped > 5000

Submitted(c) == cstate[c] # "new"
SyncFinished(c) == fut[c] \in {"done", "raised"}

\* C1: for every query value and every collaborator outcome,
\* _process_query_sync and process_query_async return an AgentResult: no
\* exception leaves _process_query_sync, and a coroutine that has returned
\* has returned a result.
C1_NoExceptionEscapes ==
    \A c \in Calls :
        /\ fut[c] # "raised"
        /\ cstate[c] = "returned" => cresult[c] # NoResult

\* C2: for every invalid query, _process_query_sync returns a result with
\* success = False, a validation record is in the error history, and the
\* collaborator was not invoked.
C2_InvalidQueryRejected ==
    \A c \in Calls :
        (Submitted(c) /\ InvalidQuery(query[c]) /\ SyncFinished(c)) =>
            /\ fut[c] = "done"
            /\ ~syncResult[c].success
            /\ \E i \in 1..Len(error_history) :
                   error_history[i].category = "validation_error"
            /\ collabCalls[c] = 0

WellFormedResult(r) ==
    /\ (r.error_message # NoneMsg) <=> ~r.success
    /\ ~r.success => (r.text = "" /\ r.generated_files = {})
    /\ r.processing_time >= 0

\* C3: every AgentResult returned by _process_query_sync or by
\* process_query_async has an error_message iff success is false, has empty
\* text and no generated files when success is false, and has a
\* non-negative processing_time.
C3_ResultShape ==
    \A c \in Calls :
        /\ fut[c] = "done" => WellFormedResult(syncResult[c])
        /\ cstate[c] = "returned" => WellFormedResult(cresult[c])

\* C3 witness: one call returned a failure from the timeout path while
\* another returned a success that lists a generated file.
C3_Witness ==
    \E c, d \in Calls :
        /\ cstate[c] = "returned" /\ cpath[c] = "timeout"
        /\ cstate[d] = "returned" /\ cresult[d].success
        /\ cresult[d].generated_files # {}

InCollaborator == {w \in Workers : wpc[w] = "agent"}

\* C4: at most one collaborator invocation is in progress at any instant,
\* and the calls are started in the order they were submitted.
C4_OneAtATime ==
    /\ Cardinality(InCollaborator) <= 1
    /\ \A i, j \in 1..Len(started) : i < j => started[i] < started[j]

\* C4 witness: the first call has timed out and returned while its worker is
\* still inside the collaborator, and a call submitted afterwards waits in
\* the queue.
C4_Witness ==
    \E c, d \in Calls, w \in Workers :
        /\ c < d
        /\ cpath[c] = "timeout" /\ deadline[d] > deadline[c]
        /\ wpc[w] = "agent" /\ wtask[w] = c
        /\ fut[d] = "pending" /\ InSeq(queue, d)

\* C5: a call whose timeout elapsed before the collaborator finished returns
\* success = False with an error_message naming the configured timeout, and
\* keeps that result whatever the worker produces for it later.
C5_TimeoutResult ==
    \A c \in Calls :
        cpath[c] = "timeout" =>
            /\ cstate[c] = "returned"
            /\ ~cresult[c].success
            /\ cresult[c].text = ""
            /\ cresult[c].error_message.kind = "timed out after seconds"
            /\ cresult[c].error_message.n = timeout_seconds

\* C5 witness: the call has returned its timeout result while the worker is
\* still inside the collaborator for it.
C5_Witness ==
    \E c \in Calls, w \in Workers :
        /\ cstate[c] = "returned" /\ cpath[c] = "timeout"
        /\ fut[c] = "running" /\ wpc[w] = "agent" /\ wtask[w] = c

\* C6: every process_query_async call eventually returns, also when the
\* collaborator never returns and when the call waits in the queue behind
\* such a call.
C6_EveryCallReturns ==
    \A c \in Calls : (cstate[c] = "awaiting") ~> (cstate[c] = "returned")

\* C6 witness: a call that was queued behind a call whose collaborator has
\* not returned has itself returned.
C6_Witness ==
    \E c, d \in Calls, w \in Workers :
        /\ c < d
        /\ wpc[w] = "agent" /\ wtask[w] = c
        /\ cstate[c] = "returned"
        /\ cstate[d] = "returned" /\ fut[d] = "cancelled"

TerminalStages == {"completing", "error"}

\* C7: no status event of call N+1 is emitted before a terminal event
\* (completing or error) of call N has been emitted.  Stated here for the
\* behaviours in which every query is a string.
C7_TaskOrder ==
    (\A c \in Calls : query[c].type \in {"str", "unset"}) =>
        \A i \in 1..Len(events) :
            events[i].task > 1 =>
                \E j \in 1..(i - 1) :
                    /\ events[j].task = events[i].task - 1
                    /\ events[j].stage \in TerminalStages

\* C8: every emitted progress is in [0.0, 1.0], and within one call the
\* progress of the events whose stage is not error never decreases.
C8_ProgressMonotone ==
    /\ \A i \in 1..Len(events) : events[i].progress \in 0..100
    /\ \A i, j \in 1..Len(events) :
           (/\ i < j
            /\ events[i].task = events[j].task
            /\ events[i].stage # "error"
            /\ events[j].stage # "error")
           => events[i].progress <= events[j].progress

C10_UnsubscribeIdempotent ==
    \A cb \in Callbacks :
        /\ remove_callback(remove_callback(status_callbacks, cb), cb)
               = remove_callback(status_callbacks, cb)
        /\ ~InSeq(status_callbacks, cb)
               => remove_callback(status_callbacks, cb) = status_callbacks

\* C11: between the handling calls of one thread the history holds at most
\* max_history_size records, and they are the most recently recorded ones in
\* recording order; get_error_history with a limit of at least the capacity
\* returned exactly those.
C11_HistoryBounded ==
    hpc["ui"] = "idle" =>
        /\ Len(error_history) <= 100
        /\ Len(error_history) = IF recorded < 100 THEN recorded ELSE 100
        /\ \A i \in 1..Len(error_history) :
               error_history[i].message = recorded - Len(error_history) + i
        /\ got.limit >= 100 =>
               /\ Len(got.records) = IF got.at < 100 THEN got.at ELSE 100
               /\ \A i \in 1..Len(got.records) :
                      got.records[i].message = got.at - Len(got.records) + i

\* C11 witness: after 150 records get_error_history(1000) returned 100
\* records, the 51st to the 150th.
C11_Witness ==
    /\ recorded = 150 /\ got.at = 150 /\ got.limit = 1000
    /\ Len(got.records) = 100
    /\ got.records[1].message = 51 /\ got.records[100].message = 150

\* C12: a record that is in the history keeps all its fields, the recovery
\* suggestions included, in every later step.
C12_RecordsImmutable ==
    [][\A i \in 1..Len(error_history), j \in 1..Len(error_history') :
           error_history[i].message = error_history'[j].message
               => error_history[i] = error_history'[j]]_vars

\* C13: once the handling calls of both threads have returned, the history
\* holds at most max_history_size records and every record appended is in it
\* unless it is older than the newest max_history_size records.
C13_NoLostRecord ==
    (\A t \in Threads : hpc[t] = "idle") =>
        /\ Len(error_history) <= 100
        /\ \A n \in 1..recorded :
               n > recorded - 100 =>
                   \E i \in 1..Len(error_history) : error_history[i].message = n

\* C14: no handling call raises, whichever internal step fails.
C14_HandleErrorNeverRaises ==
    \A t \in Threads : houtcome[t] # "raised"

\* C15: when _initialize_agent fails, the constructor still returns the
\* wrapper, the failure is in the error history with category configuration
\* and severity high, is_available() is false, and every call that has
\* returned returned success = False without invoking the collaborator.
C15_InitFailureCaptured ==
    (constructed # "no" /\ ~is_initialized) =>
        /\ constructed = "ok"
        /\ ~is_available
        /\ \E i \in 1..Len(error_history) :
               /\ error_history[i].category = "configuration_error"
               /\ error_history[i].severity = "high"
        /\ \A c \in Calls :
               cstate[c] = "returned" => (~cresult[c].success /\ collabCalls[c] = 0)

\* what a scan of the directory finds now
PresentDiagrams == scan_diagrams(files, st_ctime)

\* C16: every DiagramInfo in the list get_all_diagrams returned refers to a
\* file that exists at the time of the call (no file was created or deleted
\* since).
C16_ListedFilesExist ==
    lastOp \in {"list", "refresh"} => \A d \in listed : d.filename \in files

C18_DetectNewExact ==
    lastOp = "detect" =>
        /\ {detected[i] : i \in 1..Len(detected)}
               = {f \in files : is_supported_image(f) /\ f \notin before}
        /\ \A i, j \in 1..Len(detected) : i # j => detected[i] # detected[j]
        /\ \A i, j \in 1..Len(detected) :
               i < j => st_mtime[detected[i]] >= st_mtime[detected[j]]

\* C19: the generated_files of a successful result are exactly the files
\* the collaborator wrote during that call.
C19_ArtifactsExact ==
    \A c \in Calls :
        (fut[c] = "done" /\ syncResult[c].success)
            => syncResult[c].generated_files = wrote[c]

\* C20: get_latest_diagram called after get_all_diagrams(force_refresh=True),
\* with no file created or deleted in between, returns None when no supported
\* file exists and otherwise an existing one of maximal created_at.
C20_LatestIsNewest ==
    [][(now' = now /\ lastOp = "refresh" /\ lastOp' = "latest")
        => IF PresentDiagrams = {} THEN latest' = NoDiagram
           ELSE /\ latest' \in PresentDiagrams
                /\ \A d \in PresentDiagrams : d.created_at <= latest'.created_at]_vars

\* C20 witness: a.PNG was created after b.bmp, both exist, and
\* get_latest_diagram returned a.PNG, which is not the last by name.
C20_Witness ==
    /\ lastOp = "latest"
    /\ {"a.PNG", "b.bmp"} \subseteq files
    /\ st_ctime["b.bmp"] < st_ctime["a.PNG"]
    /\ latest = DiagramInfo("a.PNG", st_ctime["a.PNG"])
    /\ cached_diagrams = PresentDiagrams

\* the diagrams the last cleanup found at its start and that are gone now
CleanedAway == {d \in cleaned.diagrams : d.filename \notin files}

\* every unlink() of the last cleanup succeeded
NoDeletionFailed == cleaned.removed = cleaned.aged \cup cleaned.excess

\* C21: when no deletion fails, cleanup_old_diagrams(max_age_hours,
\* max_count) deletes exactly the files older than max_age_hours and then, if
\* more than max_count files remain, the oldest excess: afterwards at most
\* max_count files remain, none of them older than max_age_hours, and every
\* file deleted in the second step is no newer than every retained file.
C21_CleanupExact ==
    (lastOp = "cleanup" /\ NoDeletionFailed) =>
        LET old == {d \in cleaned.diagrams :
                       cleaned.at - d.created_at > cleaned.max_age_hours * 3600}
            young == cleaned.diagrams \ old
            second == CleanedAway \ old
        IN /\ old \subseteq CleanedAway
           /\ PresentDiagrams = cleaned.diagrams \ CleanedAway
           /\ Cardinality(second) =
                  IF Cardinality(young) > cleaned.max_count
                  THEN Cardinality(young) - cleaned.max_count ELSE 0
           /\ Cardinality(PresentDiagrams) <= cleaned.max_count
           /\ \A d \in second, e \in PresentDiagrams : d.created_at <= e.created_at

\* C21 witness: a cleanup in which no deletion failed removed one file for
\* its age and another as excess, and kept a third.
C21_Witness ==
    /\ lastOp = "cleanup" /\ NoDeletionFailed
    /\ cleaned.aged # {} /\ cleaned.excess # {}
    /\ cleaned.aged \cap cleaned.excess = {}
    /\ PresentDiagrams # {}

\* C22: cleanup_old_diagrams returns the number of files it deleted: a file
\* whose deletion fails stays on disk and is not counted, so the count is
\* the number of files removed and never exceeds it.
C22_CountsDeletedFiles ==
    lastOp = "cleanup" =>
        /\ cleaned.returned = Cardinality(CleanedAway)
        /\ cleaned.returned <= Cardinality(cleaned.diagrams \ PresentDiagrams)

\* C28: when the scan of the watched directory raises a permission or I/O
\* error, get_all_diagrams returns the cached listing (the empty list when
\* there is none), leaves the cache and the scan time as they were, and
\* returns instead of raising.
C28_ScanErrorServesCache ==
    [][(served' = "scan_error" /\ error_history' # error_history)
        => /\ listed' = cached_diagrams
           /\ cached_diagrams' = cached_diagrams
           /\ last_scan_time' = last_scan_time
           /\ lastOp' = "scan_error"]_vars

\* C28 witness: a failed scan returned the cached listing of a file that
\* was deleted after the scan that filled the cache.
C28_Witness ==
    /\ lastOp = "scan_error"
    /\ listed # {}
    /\ listed # PresentDiagrams
    /\ listed = cached_diagrams

\* C23: process_query_async with an invalid query fails at the boundary: no
\* work item is queued for the worker, and the failure is returned without
\* waiting behind the task that occupies the worker.
C23_InvalidNeverQueued ==
    \A c \in Calls :
        (Submitted(c) /\ InvalidQuery(query[c])) =>
            /\ ~InSeq(queue, c)
            /\ ~InSeq(started, c)
            /\ cstate[c] = "returned"

\* the status events of call c, in emission order
EventsOf(c) == SelectSeq(events, LAMBDA ev : ev.task = c)

StageRank(stage) ==
    CASE stage = "processing" -> 1
      [] stage = "generating_diagram" -> 2
      [] OTHER -> 3

\* C25: the status events of a task the worker has run come in the order
\* processing, then generating_diagram, then a terminal stage; the last one
\* is completing with progress 1.0 when success is True and error with
\* progress 0.0 when it is False; and no event of the task follows an error
\* event of the task.
C25_StageOrder ==
    \A c \in Calls :
        fut[c] = "done" =>
            LET evs == EventsOf(c)
            IN /\ \A i, j \in 1..Len(evs) :
                      i < j => /\ StageRank(evs[i].stage) <= StageRank(evs[j].stage)
                               /\ evs[i].stage # "error"
               /\ evs # <<>>
               /\ evs[Len(evs)] = IF syncResult[c].success
                                  THEN ProcessingStatus(c, "completing", 100)
                                  ELSE ProcessingStatus(c, "error", 0)

\* C26: once process_query_async has returned the timeout result of a call,
\* the subscribers receive no further status event of that call.
C26_SilentAfterTimeout ==
    [][\A c \in Calls :
          (cstate[c] = "returned" /\ cpath[c] = "timeout" /\ status_callbacks # <<>>)
              => Len(EventsOf(c)') = Len(EventsOf(c))]_vars

\* C27: a call that fails (validation failure, executor not available,
\* exception of the collaborator) appends exactly one record to the error
\* history, and the record carries the category of the failure.
C27_OneRecordPerFailure ==
    [][\A c \in Calls :
          (fut[c] # "done" /\ fut'[c] = "done" /\ ~syncResult'[c].success)
              => /\ Len(error_history') = Len(error_history) + 1
                 /\ error_history'[Len(error_history')].category
                        = CategoryOf(syncResult'[c].error_message.kind)]_vars

\* C30: a call whose timeout fires while its work item is still queued is
\* cancelled: no worker starts it afterwards, the collaborator is not
\* invoked for it, no snapshot is taken for it, and the only status event
\* ever emitted for it is the error event of the timeout.
C30_QueuedTimeoutCancelled ==
    [][\A c \in Calls :
          (cstate[c] \in {"timing_out", "returned"} /\ ~InSeq(started, c))
              => /\ ~InSeq(started', c)
                 /\ collabCalls'[c] = 0
                 /\ \A w \in Workers : wtask'[w] # c
                 /\ Len(EventsOf(c)') <= 1
                 /\ \A i \in 1..Len(EventsOf(c)') :
                        EventsOf(c)'[i] = ProcessingStatus(c, "error", 0)]_vars

\* C30 witness: call 1 timed out in the queue, its timeout event is the only
\* event it has, and the worker has since dropped its work item and run
\* call 2 to the end.
C30_Witness ==
    /\ fut[1] = "cancelled" /\ cstate[1] = "returned" /\ cpath[1] = "timeout"
    /\ EventsOf(1) = <<ProcessingStatus(1, "error", 0)>>
    /\ ~InSeq(queue, 1) /\ ~InSeq(started, 1)
    /\ fut[2] = "done" /\ syncResult[2].success

\* C24: every invocation of the collaborator runs on the worker thread of
\* the executor, never on the thread of the caller, so at most one thread is
\* inside the collaborator (between its snapshot and its diff) at a time.
C24_OnlyOnWorker ==
    /\ \A w \in Runners : wpc[w] = "agent" => w \in Workers
    /\ Cardinality({w \in Runners : wpc[w] = "agent"}) <= 1

\* how often callback cb occurs in the sequence s
Occurrences(s, cb) == Cardinality({i \in 1..Len(s) : s[i] = cb})

\* C29: when callbacks are unsubscribed while _emit_status delivers an
\* event, by a callback of the loop or by another thread, every callback
\* that was subscribed when the delivery began and was not unsubscribed
\* during it has received the event exactly once when the delivery ends.
C29_DeliveryUnderUnsubscribe ==
    delivery.pc = "done" =>
        \A cb \in Callbacks :
            (Occurrences(delivery.subscribed, cb) = 1 /\ cb \notin delivery.removed)
                => Occurrences(delivery.received, cb) = 1

====
